---- MODULE Spec2Model ----
(***************************************************************************)
(* Model of hashset.h: an open-addressed hash set with linear probing,     *)
(* tombstone deletion and load-factor growth, instantiated as in           *)
(* example.c: HASHSET_DECLARE(u32, uint32_t, hashset_hash_int32, eq_u32).  *)
(***************************************************************************)
EXTENDS Integers, Sequences, FiniteSets, TLC

VARIABLES data, state, size, capacity, oob, live, last, pending, removals,
          mem, readers

vars == <<data, state, size, capacity, oob, live, last, pending, removals,
          mem, readers>>

\* data, state, size, capacity: the fields of struct prefix_set.
\* oob: whether a call has indexed slot capacity, one past the arrays
\*   ("none", "read", or "write": the heap behind the arrays is overwritten).
\* live: the keys inserted successfully and not removed successfully since.
\* last: the last call, its result, whether it found the table full and
\*   whether it changed the capacity.
\* pending: after insert(A) directly followed by remove(A), the key A and
\*   the slot that remove turned into a Tombstone; otherwise NoPending.
\* removals: the number of entries removed so far.
\* mem: the storage behind set->data and set->state: what each of the two
\*   pointers refers to ("live": an allocated array, "null", "freed": a
\*   released array), the number of arrays that were allocated and can no
\*   longer be released (leaked), and the memory fault of the run, if any.
\* readers: the calls of prefix_set_contains in progress, one per thread.

(***************************************************************************)
(* Configuration (hashset.h, "Configuration").                             *)
(***************************************************************************)
HASHSET_INITIAL_CAPACITY == 16

\* HASHSET_MAX_LOAD_FACTOR 0.7, in tenths.  For a power-of-two capacity
\* size / capacity is exact in a double and never equal to 7/10, so
\* (double)size / capacity > 0.7 is size * 10 > 7 * capacity.
MaxLoadTenths == 7

(***************************************************************************)
(* Bounds of the model.                                                    *)
(***************************************************************************)
\* number of different keys the callers use
NumKeys == 4
\* capacities are at most 2^MaxCapLog (direct resize, and automatic growth)
MaxCapLog == 5
\* number of entries the callers remove in one run
MaxRemovals == 2

RECURSIVE Pow2(_)
Pow2(n) == IF n = 0 THEN 1 ELSE 2 * Pow2(n - 1)

MaxCapacity == Pow2(MaxCapLog)

\* The keys of the callers: 42 and 1337 of example.c, then keys that collide
\* with them under hashset_hash_int32 (25 with 42 under every mask, 18 with
\* 1337 under the masks up to 15), then further keys.
KeyUniverse == <<42, 1337, 25, 18, 1, 19, 7, 16, 21, 2, 12, 32, 10, 24, 4, 26>>

Keys == {KeyUniverse[i] : i \in 1..NumKeys}

\* the length tag of the callers: example.c passes 0 with every uint32_t key
KeyLens == {0}

(***************************************************************************)
(* uint32_t arithmetic.  A uint32_t is a pair <<hi, lo>> of its two 16-bit *)
(* halves; every operator takes evaluated pairs.                           *)
(***************************************************************************)
Half == 65536

\* a value below 2^31 as a uint32_t
ToU32(n) == <<n \div Half, n % Half>>

\* x ^ y for two numbers below 2^16
RECURSIVE NXor(_, _)
NXor(x, y) ==
  IF x = 0 THEN y
  ELSE IF y = 0 THEN x
  ELSE ((x + y) % 2) + 2 * NXor(x \div 2, y \div 2)

\* x & y for two numbers below 2^31
RECURSIVE NAnd(_, _)
NAnd(x, y) ==
  IF x = 0 \/ y = 0 THEN 0
  ELSE (x % 2) * (y % 2) + 2 * NAnd(x \div 2, y \div 2)

\* a ^ b
BXor(a, b) == <<NXor(a[1], b[1]), NXor(a[2], b[2])>>

\* a >> 16, a >> 4, a >> 15 and a << 3
BShr16(a) == <<0, a[1]>>

BShr4(a) == <<a[1] \div 16, (a[2] \div 16) + (a[1] % 16) * 4096>>

BShr15(a) == <<a[1] \div 32768, (a[2] \div 32768) + (a[1] % 32768) * 2>>

BShl3(a) == <<(a[1] * 8 + a[2] \div 8192) % Half, (a[2] * 8) % Half>>

\* a + b modulo 2^32
BAdd(a, b) ==
  <<(a[1] + b[1] + (a[2] + b[2]) \div Half) % Half, (a[2] + b[2]) % Half>>

\* the k-th byte of a, k in 0..3
Limb(a, k) ==
  IF k = 0 THEN a[2] % 256
  ELSE IF k = 1 THEN a[2] \div 256
  ELSE IF k = 2 THEN a[1] % 256
  ELSE a[1] \div 256

\* a * c modulo 2^32, byte by byte with the carries
MulP0(a, c) == Limb(a, 0) * Limb(c, 0)

MulP1(a, c, p0) ==
  Limb(a, 0) * Limb(c, 1) + Limb(a, 1) * Limb(c, 0) + (p0 \div 256)

MulP2(a, c, p1) ==
  Limb(a, 0) * Limb(c, 2) + Limb(a, 1) * Limb(c, 1) + Limb(a, 2) * Limb(c, 0)
  + (p1 \div 256)

MulP3(a, c, p2) ==
  Limb(a, 0) * Limb(c, 3) + Limb(a, 1) * Limb(c, 2) + Limb(a, 2) * Limb(c, 1)
  + Limb(a, 3) * Limb(c, 0) + (p2 \div 256)

BMul(a, c) ==
  CHOOSE r \in UNION UNION UNION
    { { { { <<(p2 % 256) + 256 * (p3 % 256), (p0 % 256) + 256 * (p1 % 256)>>
            : p3 \in {MulP3(a, c, p2)} }
          : p2 \in {MulP2(a, c, p1)} }
        : p1 \in {MulP1(a, c, p0)} }
      : p0 \in {MulP0(a, c)} } : TRUE

\* h & m for a uint32_t h and a mask m below 2^31, as a number
BAnd(h, m) == NAnd(h[2], m % Half) + Half * NAnd(h[1], m \div Half)

(***************************************************************************)
(* The hash and equality functions of the instantiation.                   *)
(***************************************************************************)
\* 0x27d4eb2d
HashMultiplier == 668265261

hashset_hash_int32(a, ignored) ==
  CHOOSE r \in UNION UNION UNION UNION
    { { { { { BXor(a4, BShr15(a4))
              : a4 \in {BMul(a3, ToU32(HashMultiplier))} }
            : a3 \in {BXor(a2, BShr4(a2))} }
          : a2 \in {BAdd(a1, BShl3(a1))} }
        : a1 \in {BXor(BXor(a0, ToU32(61)), BShr16(a0))} }
      : a0 \in {ToU32(a)} } : TRUE

\* the hash of every key of the model, computed once
HashOf == [k \in {KeyUniverse[i] : i \in 1..Len(KeyUniverse)} |->
             hashset_hash_int32(k, 0)]

hash_fn(key, key_len) == HashOf[key]

\* hash_fn(key, key_len) & mask for every key and every mask of the model,
\* computed once
MaskedHash == [m \in {Pow2(e) - 1 : e \in 0..MaxCapLog} |->
                [k \in DOMAIN HashOf |-> BAnd(HashOf[k], m)]]

eq_u32(a, a_size, b, b_size) == a = b

eq_fn(a, a_size, b, b_size) == eq_u32(a, a_size, b, b_size)

(***************************************************************************)
(* The set: struct prefix_set and its entries.                             *)
(***************************************************************************)
\* slot states of the uint8_t state array
Empty == 0
Occupied == 1
Tombstone == 2

\* an entry as calloc leaves it
ZeroPair == [val |-> 0, size |-> 0]

\* the values a read of state[capacity], one past the array, can produce
OobBytes == {Empty, Occupied, Tombstone}

\* the set the variables describe
Set == [data |-> data, state |-> state, size |-> size,
        capacity |-> capacity, oob |-> oob]

Worse(o, n) ==
  IF o = "write" \/ n = "write" THEN "write"
  ELSE IF o = "read" \/ n = "read" THEN "read" ELSE "none"

(***************************************************************************)
(* HASHSET_CALLOC and HASHSET_FREE.  A pointer is "live" (it refers to an  *)
(* allocated array), "null", or "freed" (the array was released).  Every   *)
(* array has one pointer, so an array is lost when that pointer goes away  *)
(* while it is "live".                                                     *)
(***************************************************************************)
\* the pointer HASHSET_CALLOC returns; ok is whether the allocator succeeds
Calloc(ok) == IF ok THEN "live" ELSE "null"

\* the array behind the pointer p: n elements, zero-filled; none for NULL
Zeroed(p, n, zero) ==
  [i \in 0..((IF p = "live" THEN n ELSE 0) - 1) |-> zero]

\* the pointer p after HASHSET_FREE(p); free(NULL) does nothing
Freed(p) == IF p = "null" THEN "null" ELSE "freed"

\* HASHSET_FREE(p) releases an array a second time
DoubleFree(p) == p = "freed"

\* the arrays lost when the pointer p is overwritten or goes out of scope
Dropped(p) == IF p = "live" THEN 1 ELSE 0

\* the storage after prefix_set_init
init_mem(okd, oks) ==
  [data |-> Calloc(okd), state |-> Calloc(oks), leaked |-> 0,
   fault |-> "none"]

(***************************************************************************)
(* prefix_set_find_slot                                                    *)
(***************************************************************************)
RECURSIVE ProbeLoop(_, _, _, _, _, _)
ProbeLoop(s, key, key_len, mask, start, idx) ==
  IF s.state[idx] = Occupied
     /\ ~eq_fn(s.data[idx].val, s.data[idx].size, key, key_len)
  THEN LET next == NAnd(idx + 1, mask)
       IN  IF next = start THEN s.capacity
           ELSE ProbeLoop(s, key, key_len, mask, start, next)
  ELSE idx

\* ProbeCount without the line if (idx == start) return set->capacity
RECURSIVE ProbeCountNoWrap(_, _, _, _, _, _, _)
ProbeCountNoWrap(s, key, key_len, mask, start, idx, n) ==
  IF n > s.capacity THEN n
  ELSE IF s.state[idx] = Occupied
          /\ ~eq_fn(s.data[idx].val, s.data[idx].size, key, key_len)
       THEN ProbeCountNoWrap(s, key, key_len, mask, start,
                             NAnd(idx + 1, mask), n + 1)
       ELSE n

\* the number of slots the loop of find_slot visits (evaluations of its
\* test), n being the number up to and with idx; the count stops once it
\* is above capacity
RECURSIVE ProbeCount(_, _, _, _, _, _, _)
ProbeCount(s, key, key_len, mask, start, idx, n) ==
  IF n > s.capacity THEN n
  ELSE IF s.state[idx] = Occupied
          /\ ~eq_fn(s.data[idx].val, s.data[idx].size, key, key_len)
       THEN LET next == NAnd(idx + 1, mask)
            IN  IF next = start THEN n
                ELSE ProbeCount(s, key, key_len, mask, start, next, n + 1)
       ELSE n

ProbeVisits(s, key, key_len) ==
  LET mask == s.capacity - 1
      idx  == MaskedHash[mask][key]
  IN  ProbeCount(s, key, key_len, mask, idx, idx, 1)

\* set_find_slot that starts at slot 0 instead of hash & mask
set_find_slot_nohash(s, key, key_len) ==
  ProbeLoop(s, key, key_len, s.capacity - 1, 0, 0)

set_find_slot(s, key, key_len) ==
  LET mask == s.capacity - 1
      idx  == MaskedHash[mask][key]
  IN  ProbeLoop(s, key, key_len, mask, idx, idx)

(***************************************************************************)
(* prefix_set_resize                                                       *)
(***************************************************************************)
\* ResizeLoop with the test old_state[i] != 0: removed entries come back
RECURSIVE ResizeLoopAll(_, _, _)
ResizeLoopAll(old, i, cur) ==
  IF i >= old.capacity THEN cur
  ELSE IF old.state[i] # Empty
       THEN LET val  == old.data[i]
                slot == set_find_slot(cur, val.val, val.size)
            IN  IF slot < cur.capacity
                THEN ResizeLoopAll(old, i + 1,
                       [cur EXCEPT !.data[slot] = val,
                                   !.state[slot] = Occupied,
                                   !.size = @ + 1])
                ELSE ResizeLoopAll(old, i + 1,
                       [cur EXCEPT !.size = @ + 1, !.oob = "write"])
       ELSE ResizeLoopAll(old, i + 1, cur)

RECURSIVE ResizeLoop(_, _, _)
ResizeLoop(old, i, cur) ==
  IF i >= old.capacity THEN cur
  ELSE IF old.state[i] = Occupied
       THEN LET val  == old.data[i]
                slot == set_find_slot(cur, val.val, val.size)
            IN  IF slot < 0 THEN ResizeLoop(old, i + 1, cur)
                ELSE IF slot < cur.capacity
                THEN ResizeLoop(old, i + 1,
                       [cur EXCEPT !.data[slot] = val,
                                   !.state[slot] = Occupied,
                                   !.size = @ + 1])
                \* data[capacity] and state[capacity] lie outside the arrays
                ELSE ResizeLoop(old, i + 1,
                       [cur EXCEPT !.size = @ + 1, !.oob = "write"])
       ELSE ResizeLoop(old, i + 1, cur)

\* the number of iterations of the for loop of prefix_set_resize from i on:
\* i runs up to old_cap, the capacity read before set->capacity = newcap
RECURSIVE ResizeCount(_, _)
ResizeCount(i, old_cap) ==
  IF i < old_cap THEN 1 + ResizeCount(i + 1, old_cap) ELSE 0

ResizeIters(s, newcap) == ResizeCount(0, s.capacity)

\* set_resize without the line set->size = 0
set_resize_keepsize(s, newcap) ==
  ResizeLoop(s, 0,
    [data |-> [i \in 0..(newcap - 1) |-> ZeroPair],
     state |-> [i \in 0..(newcap - 1) |-> Empty],
     size |-> s.size, capacity |-> newcap, oob |-> s.oob])

set_resize(s, newcap) ==
  ResizeLoop(s, 0,
    [data |-> [i \in 0..(newcap - 1) |-> ZeroPair],
     state |-> [i \in 0..(newcap - 1) |-> Empty],
     size |-> 0, capacity |-> newcap, oob |-> s.oob])

\* the set between set->size = 0 and the loop of prefix_set_resize, when the
\* two allocations returned the pointers pd and ps
Fresh(s, newcap, pd, ps) ==
  [data |-> Zeroed(pd, newcap, ZeroPair), state |-> Zeroed(ps, newcap, Empty),
   size |-> 0, capacity |-> newcap, oob |-> s.oob]

\* the storage after a prefix_set_resize that ran to its end: the pointers
\* of the set are the new ones, the old ones were freed and are gone
resize_mem(m, okd, oks) ==
  [data |-> Calloc(okd), state |-> Calloc(oks),
   leaked |-> m.leaked + Dropped(Freed(m.data)) + Dropped(Freed(m.state)),
   fault |-> IF DoubleFree(m.data) \/ DoubleFree(m.state)
             THEN "double_free" ELSE m.fault]

\* prefix_set_resize reads or writes through a NULL pointer: old_state[0]
\* of a set without a state array, or, for the first Occupied entry of the
\* old array, set->state[idx] in find_slot or set->data[slot]
ResizeNullDeref(s, m, okd, oks) ==
  \/ s.capacity > 0 /\ m.state = "null"
  \/ /\ m.state = "live"
     /\ ~(okd /\ oks)
     /\ \E i \in 0..(s.capacity - 1) : s.state[i] = Occupied

\* prefix_set_resize with an allocator that can fail.  ret is whether the
\* call returned 0; a call that faults does not return.
set_resize_alloc(s, m, newcap, okd, oks) ==
  IF ResizeNullDeref(s, m, okd, oks)
  THEN [set |-> Fresh(s, newcap, Calloc(okd), Calloc(oks)),
        mem |-> [data |-> Calloc(okd), state |-> Calloc(oks),
                 leaked |-> m.leaked, fault |-> "null_deref"],
        ret |-> FALSE]
  ELSE [set |-> ResizeLoop(s, 0, Fresh(s, newcap, Calloc(okd), Calloc(oks))),
        mem |-> resize_mem(m, okd, oks),
        ret |-> TRUE]

(***************************************************************************)
(* prefix_set_destroy                                                      *)
(***************************************************************************)
\* set_destroy without the line HASHSET_FREE(set->state)
set_destroy_nofree(s, m) ==
  [set |-> [data |-> Zeroed("null", 0, ZeroPair),
            state |-> Zeroed("null", 0, Empty),
            size |-> 0, capacity |-> 0, oob |-> s.oob],
   mem |-> [data |-> "null", state |-> "null",
            leaked |-> m.leaked + Dropped(Freed(m.data)) + Dropped(m.state),
            fault |-> IF DoubleFree(m.data) THEN "double_free" ELSE m.fault]]

set_destroy(s, m) ==
  [set |-> [data |-> Zeroed("null", 0, ZeroPair),
            state |-> Zeroed("null", 0, Empty),
            size |-> 0, capacity |-> 0, oob |-> s.oob],
   mem |-> [data |-> "null", state |-> "null",
            leaked |-> m.leaked + Dropped(Freed(m.data))
                               + Dropped(Freed(m.state)),
            fault |-> IF DoubleFree(m.data) \/ DoubleFree(m.state)
                      THEN "double_free" ELSE m.fault]]

(***************************************************************************)
(* prefix_set_insert, prefix_set_contains, prefix_set_remove               *)
(* v is the byte a read of state[capacity] yields when the table is full.  *)
(***************************************************************************)
\* OverLoad with a threshold of 0.8
OverLoadLate(s) == s.size * 10 > (MaxLoadTenths + 1) * s.capacity

OverLoad(s) == s.size * 10 > MaxLoadTenths * s.capacity

\* set_insert without the load-factor test and the call of resize
set_insert_nogrow(s, key, key_len, v) ==
  LET idx == set_find_slot(s, key, key_len)
      in  == idx < s.capacity
      st  == IF in THEN s.state[idx] ELSE v
  IN  IF st = Occupied
      THEN [set |-> IF in THEN s ELSE [s EXCEPT !.oob = Worse(@, "read")],
            ret |-> FALSE, full |-> ~in]
      ELSE IF in
      THEN [set |-> [s EXCEPT !.data[idx] = [val |-> key, size |-> key_len],
                              !.state[idx] = Occupied,
                              !.size = @ + 1],
            ret |-> TRUE, full |-> FALSE]
      ELSE [set |-> [s EXCEPT !.size = @ + 1, !.oob = "write"],
            ret |-> TRUE, full |-> TRUE]

set_insert(s, key, key_len, v) ==
  LET s1  == IF OverLoad(s) THEN set_resize(s, s.capacity * 2) ELSE s
      idx == set_find_slot(s1, key, key_len)
      in  == idx < s1.capacity
      st  == IF in THEN s1.state[idx] ELSE v
      s2  == IF in THEN s1 ELSE [s1 EXCEPT !.oob = Worse(@, "read")]
  IN  IF idx < 0 THEN [set |-> s1, ret |-> FALSE, full |-> FALSE]
      ELSE IF st = Occupied THEN [set |-> s2, ret |-> FALSE, full |-> ~in]
      ELSE IF in
      THEN [set |-> [s1 EXCEPT !.data[idx] = [val |-> key, size |-> key_len],
                               !.state[idx] = Occupied,
                               !.size = @ + 1],
            ret |-> TRUE, full |-> FALSE]
      ELSE [set |-> [s1 EXCEPT !.size = @ + 1, !.oob = "write"],
            ret |-> TRUE, full |-> TRUE]

set_contains(s, key, key_len, v) ==
  LET idx == set_find_slot(s, key, key_len)
      in  == idx < s.capacity
      st  == IF in THEN s.state[idx] ELSE v
  IN  IF idx < 0 THEN [ret |-> FALSE, oob |-> s.oob]
      ELSE [ret |-> (st = Occupied),
            oob |-> IF in THEN s.oob ELSE Worse(s.oob, "read")]

\* set_remove without the line set->state[idx] = 2
set_remove_nomark(s, key, key_len, v) ==
  LET idx == set_find_slot(s, key, key_len)
      in  == idx < s.capacity
      st  == IF in THEN s.state[idx] ELSE v
  IN  IF st # Occupied
      THEN [set |-> IF in THEN s ELSE [s EXCEPT !.oob = Worse(@, "read")],
            ret |-> FALSE]
      ELSE [set |-> [s EXCEPT !.size = @ - 1], ret |-> TRUE]

\* set_remove without the line set->size--
set_remove_nodec(s, key, key_len, v) ==
  LET idx == set_find_slot(s, key, key_len)
      in  == idx < s.capacity
      st  == IF in THEN s.state[idx] ELSE v
  IN  IF st # Occupied
      THEN [set |-> IF in THEN s ELSE [s EXCEPT !.oob = Worse(@, "read")],
            ret |-> FALSE]
      ELSE IF in
      THEN [set |-> [s EXCEPT !.state[idx] = Tombstone], ret |-> TRUE]
      ELSE [set |-> [s EXCEPT !.oob = "write"], ret |-> TRUE]

set_remove(s, key, key_len, v) ==
  LET idx == set_find_slot(s, key, key_len)
      in  == idx < s.capacity
      st  == IF in THEN s.state[idx] ELSE v
  IN  IF st # Occupied
      THEN [set |-> IF in THEN s ELSE [s EXCEPT !.oob = Worse(@, "read")],
            ret |-> FALSE]
      ELSE IF in
      THEN [set |-> [s EXCEPT !.state[idx] = Tombstone, !.size = @ - 1],
            ret |-> TRUE]
      ELSE [set |-> [s EXCEPT !.size = @ - 1, !.oob = "write"],
            ret |-> TRUE]

\* every slot is Occupied by a key different from key
Full(s, key, key_len) == set_find_slot(s, key, key_len) = s.capacity

ReadBytes(s, key, key_len) ==
  IF Full(s, key, key_len) THEN OobBytes ELSE {Empty}

\* the results a call of contains(key, key_len) can return in s
ContainsResults(s, key, key_len) ==
  {set_contains(s, key, key_len, v).ret : v \in ReadBytes(s, key, key_len)}

(***************************************************************************)
(* The calls of a client.                                                  *)
(***************************************************************************)
Store(s) ==
  /\ data' = s.data
  /\ state' = s.state
  /\ size' = s.size
  /\ capacity' = s.capacity
  /\ oob' = s.oob

\* slot is the index a direct call of find_slot returned, -1 for the other
\* calls
Call(op, key, key_len, ret, full, grew) ==
  [op |-> op, key |-> key, len |-> key_len, ret |-> ret,
   full |-> full, grew |-> grew, slot |-> -1]

NoPending == [key |-> 0, slot |-> -1]

\* the threads that call prefix_set_contains
Readers == {"r1", "r2"}

\* a thread that is not inside a call.  In a call: pc is "probe" (at the
\* test of the loop of find_slot) or "test" (find_slot has returned idx);
\* key, key_len, mask, start and idx are the parameters and locals;
\* visited counts the evaluations of the loop test; ret0 is what the call
\* returns when it runs alone from the state it started in; mutated is
\* whether an insert, remove or resize ran since it started.  Outside a
\* call, torn is whether the last call returned what contains returns
\* neither in the state it started in nor in the state it returned in.
IdleReader ==
  [pc |-> "idle", key |-> 0, key_len |-> 0, mask |-> 0, start |-> 0,
   idx |-> 0, visited |-> 0, ret0 |-> FALSE, mutated |-> FALSE,
   torn |-> FALSE]

\* the calls in progress after an insert, remove or resize ran
Overlapped(rs) ==
  [r \in Readers |->
     IF rs[r].pc = "idle" THEN rs[r] ELSE [rs[r] EXCEPT !.mutated = TRUE]]

\* both arrays of the set exist and no memory fault has happened
Usable ==
  mem.fault = "none" /\ mem.data = "live" /\ mem.state = "live"

\* the state array exists: contains and remove read set->data only at an
\* Occupied slot
Readable == mem.fault = "none" /\ mem.state = "live"

\* prefix_set_init
Init ==
  /\ size = 0
  /\ capacity = HASHSET_INITIAL_CAPACITY
  /\ data = [i \in 0..(HASHSET_INITIAL_CAPACITY - 1) |-> ZeroPair]
  /\ state = [i \in 0..(HASHSET_INITIAL_CAPACITY - 1) |-> Empty]
  /\ oob = "none"
  /\ live = {}
  /\ last = Call("init", 0, 0, TRUE, FALSE, FALSE)
  /\ pending = NoPending
  /\ removals = 0
  /\ mem = init_mem(TRUE, TRUE)
  /\ readers = [r \in Readers |-> IdleReader]

\* No call is modelled after a write outside the arrays: what the program
\* does from there on is not determined by the set.
Insert(key, key_len) ==
  /\ Usable
  /\ oob # "write"
  \* bound: the table does not grow beyond MaxCapacity
  /\ OverLoad(Set) => capacity * 2 <= MaxCapacity
  /\ \E v \in ReadBytes(Set, key, key_len) :
       \E r \in {set_insert(Set, key, key_len, v)} :
         /\ Store(r.set)
         /\ last' = Call("insert", key, key_len, r.ret,
                         r.full, r.set.capacity # capacity)
         /\ live' = IF r.ret THEN live \cup {key} ELSE live
  /\ mem' = IF OverLoad(Set) THEN resize_mem(mem, TRUE, TRUE) ELSE mem
  /\ readers' = Overlapped(readers)
  /\ pending' = NoPending
  /\ UNCHANGED removals

Contains(key, key_len) ==
  /\ Readable
  /\ oob # "write"
  /\ \E v \in ReadBytes(Set, key, key_len) :
       \E r \in {set_contains(Set, key, key_len, v)} :
         /\ oob' = r.oob
         /\ last' = Call("contains", key, key_len, r.ret,
                         Full(Set, key, key_len), FALSE)
  /\ pending' = NoPending
  /\ UNCHANGED <<data, state, size, capacity, live, removals, mem, readers>>

Remove(key, key_len) ==
  /\ Readable
  /\ oob # "write"
  /\ \E v \in ReadBytes(Set, key, key_len) :
       \E r \in {set_remove(Set, key, key_len, v)} :
         \* bound: at most MaxRemovals entries are removed
         /\ r.ret => removals < MaxRemovals
         /\ Store(r.set)
         /\ last' = Call("remove", key, key_len, r.ret,
                         Full(Set, key, key_len), FALSE)
         /\ removals' = IF r.ret THEN removals + 1 ELSE removals
         /\ pending' = IF last.op = "insert" /\ last.key = key /\ r.ret
                           /\ ~Full(Set, key, key_len)
                        THEN [key |-> key,
                              slot |-> set_find_slot(Set, key, key_len)]
                        ELSE NoPending
         /\ live' = IF r.ret THEN live \ {key} ELSE live
  /\ readers' = Overlapped(readers)
  /\ UNCHANGED mem

\* a direct call of prefix_set_resize; it returns 0 on every path
Resize(newcap) ==
  /\ Usable
  /\ oob # "write"
  /\ \E r \in {set_resize(Set, newcap)} :
       /\ Store(r)
       /\ last' = Call("resize", 0, 0, TRUE,
                       r.oob = "write", newcap # capacity)
  /\ mem' = resize_mem(mem, TRUE, TRUE)
  /\ readers' = Overlapped(readers)
  /\ pending' = NoPending
  /\ UNCHANGED <<live, removals>>

(***************************************************************************)
(* The calls of a client whose allocator can fail, and prefix_set_destroy. *)
(***************************************************************************)
\* prefix_set_init; it returns 0 on every path
InitAlloc ==
  \E okd, oks \in BOOLEAN :
    /\ size = 0
    /\ capacity = HASHSET_INITIAL_CAPACITY
    /\ data = Zeroed(Calloc(okd), HASHSET_INITIAL_CAPACITY, ZeroPair)
    /\ state = Zeroed(Calloc(oks), HASHSET_INITIAL_CAPACITY, Empty)
    /\ oob = "none"
    /\ live = {}
    /\ last = Call("init", 0, 0, TRUE, FALSE, FALSE)
    /\ pending = NoPending
    /\ removals = 0
    /\ mem = init_mem(okd, oks)
    /\ readers = [r \in Readers |-> IdleReader]

\* a direct call of prefix_set_resize
ResizeAlloc(newcap, okd, oks) ==
  /\ mem.fault = "none"
  /\ last.op # "destroy"
  /\ oob # "write"
  /\ \E r \in {set_resize_alloc(Set, mem, newcap, okd, oks)} :
       /\ Store(r.set)
       /\ mem' = r.mem
       /\ last' = Call("resize", 0, 0, r.ret,
                       r.set.oob = "write", newcap # capacity)
  /\ readers' = Overlapped(readers)
  /\ pending' = NoPending
  /\ UNCHANGED <<live, removals>>

\* prefix_set_insert when an allocation of its prefix_set_resize fails: the
\* set holds entries, so resize faults; if it did not, the probe or the
\* store of the insert would
InsertGrowFail(key, key_len, okd, oks) ==
  /\ Usable
  /\ oob # "write"
  /\ OverLoad(Set)
  /\ capacity * 2 <= MaxCapacity
  /\ ~(okd /\ oks)
  /\ \E r \in {set_resize_alloc(Set, mem, capacity * 2, okd, oks)} :
       /\ Store(r.set)
       /\ mem' = [r.mem EXCEPT !.fault = "null_deref"]
  /\ last' = Call("insert", key, key_len, FALSE, FALSE, TRUE)
  /\ readers' = Overlapped(readers)
  /\ pending' = NoPending
  /\ UNCHANGED <<live, removals>>

\* a call that goes through a NULL array of the set: insert reads
\* set->state[idx] or writes set->data[idx], contains and remove read
\* set->state[idx]
FaultCall(op, key, key_len) ==
  /\ mem.fault = "none"
  /\ last.op # "destroy"
  /\ oob # "write"
  /\ \/ op = "insert" /\ (mem.data = "null" \/ mem.state = "null")
     \/ op \in {"contains", "remove"} /\ mem.state = "null"
  /\ mem' = [mem EXCEPT !.fault = "null_deref"]
  /\ last' = Call(op, key, key_len, FALSE, FALSE, FALSE)
  /\ readers' = Overlapped(readers)
  /\ pending' = NoPending
  /\ UNCHANGED <<data, state, size, capacity, oob, live, removals>>

\* a direct call of prefix_set_find_slot; ret is whether it returned a slot
\* of the table
FindSlot(key, key_len) ==
  /\ Usable
  /\ oob # "write"
  /\ \E idx \in {set_find_slot(Set, key, key_len)} :
       last' = [Call("find_slot", key, key_len, idx < capacity,
                     idx = capacity, FALSE) EXCEPT !.slot = idx]
  /\ pending' = NoPending
  /\ UNCHANGED <<data, state, size, capacity, oob, live, removals, mem,
                 readers>>

\* prefix_set_destroy; nothing is called on the set afterwards
Destroy ==
  /\ mem.fault = "none"
  /\ last.op # "destroy"
  /\ oob # "write"
  /\ \E r \in {set_destroy(Set, mem)} :
       /\ Store(r.set)
       /\ mem' = r.mem
  /\ last' = Call("destroy", 0, 0, TRUE, FALSE, FALSE)
  /\ readers' = Overlapped(readers)
  /\ pending' = NoPending
  /\ UNCHANGED <<live, removals>>

(***************************************************************************)
(* prefix_set_contains, statement by statement, for threads that call it   *)
(* while other calls run.  Every read of the set is one step.              *)
(***************************************************************************)
\* the bytes a read of state[idx] yields, and the results of eq_fn on
\* data[idx]; a slot outside the arrays holds anything
StateRead(idx) == IF idx \in DOMAIN state THEN {state[idx]} ELSE OobBytes

EqRead(idx, key, key_len) ==
  IF idx \in DOMAIN data
  THEN {eq_fn(data[idx].val, data[idx].size, key, key_len)}
  ELSE BOOLEAN

\* contains_ret with the test state[idx] != 0
contains_ret_nonempty(st) == st # Empty

\* the result of prefix_set_contains: set->state[idx] == 1
contains_ret(st) == st = Occupied

\* the call enters find_slot: mask, idx and start
StartContains(r, key, key_len) ==
  /\ Readable
  /\ last.op # "destroy"
  /\ oob # "write"
  /\ readers[r].pc = "idle"
  /\ readers' = [readers EXCEPT ![r] =
       [pc |-> "probe", key |-> key, key_len |-> key_len,
        mask |-> capacity - 1,
        start |-> MaskedHash[capacity - 1][key],
        idx |-> MaskedHash[capacity - 1][key],
        visited |-> 0,
        ret0 |-> CHOOSE b \in ContainsResults(Set, key, key_len) : TRUE,
        mutated |-> FALSE, torn |-> FALSE]]
  /\ UNCHANGED <<data, state, size, capacity, oob, live, last, pending,
                 removals, mem>>

\* one evaluation of the loop test of find_slot and, when it holds, the
\* loop body
ProbeStep(r) ==
  /\ mem.fault = "none"
  /\ readers[r].pc = "probe"
  /\ \E st \in StateRead(readers[r].idx) :
       \E eq \in EqRead(readers[r].idx, readers[r].key, readers[r].key_len) :
         LET rd   == readers[r]
             next == NAnd(rd.idx + 1, rd.mask)
         IN  readers' = [readers EXCEPT ![r] =
               IF st = Occupied /\ ~eq
               THEN IF next = rd.start
                    THEN [rd EXCEPT !.pc = "test", !.idx = capacity,
                                    !.visited = @ + 1]
                    ELSE [rd EXCEPT !.idx = next, !.visited = @ + 1]
               ELSE [rd EXCEPT !.pc = "test", !.visited = @ + 1]]
  /\ UNCHANGED <<data, state, size, capacity, oob, live, last, pending,
                 removals, mem>>

\* find_slot has returned: return set->state[idx] == 1.  The full field of
\* last is whether idx, computed before a resize, lies outside the arrays.
FinishContains(r) ==
  /\ mem.fault = "none"
  /\ readers[r].pc = "test"
  /\ \E st \in StateRead(readers[r].idx) :
       LET rd  == readers[r]
           ret == contains_ret(st)
       IN  /\ last' = Call("contains", rd.key, rd.key_len, ret,
                           rd.idx \notin DOMAIN state, FALSE)
           /\ readers' = [readers EXCEPT ![r] =
                [IdleReader EXCEPT !.torn =
                   /\ rd.mutated
                   /\ ret # rd.ret0
                   /\ ret \notin ContainsResults(Set, rd.key, rd.key_len)]]
  /\ pending' = NoPending
  /\ UNCHANGED <<data, state, size, capacity, oob, live, removals, mem>>

\* the capacities of a caller that pre-sizes the table: powers of two from 4
\* on, larger than the number of entries
PreSizes == {Pow2(e) : e \in 2..MaxCapLog}

\* every power of two, also below the number of entries
AnySizes == {Pow2(e) : e \in 0..MaxCapLog}

InsertStep == \E k \in Keys, n \in KeyLens : Insert(k, n)
ContainsStep == \E k \in Keys, n \in KeyLens : Contains(k, n)
RemoveStep == \E k \in Keys, n \in KeyLens : Remove(k, n)
ResizeStep == \E c \in PreSizes : c > size /\ Resize(c)
ResizeAnyStep == \E c \in AnySizes : Resize(c)

Next == InsertStep \/ ContainsStep \/ RemoveStep \/ ResizeStep

Spec == Init /\ [][Next]_vars

NextFull == InsertStep \/ ContainsStep \/ RemoveStep \/ ResizeAnyStep

SpecFull == Init /\ [][NextFull]_vars

\* The load-factor scenario: ceil(0.7 * initial capacity) + 1 keys are
\* distinct keys are inserted into a freshly initialized set, in any order.
FillCount == (MaxLoadTenths * HASHSET_INITIAL_CAPACITY + 9) \div 10 + 1

FillKeys == {KeyUniverse[i] : i \in 1..FillCount}

FillStep == \E k \in FillKeys \ live, n \in KeyLens : Insert(k, n)

NextFill == FillStep

SpecFill == Init /\ [][NextFill]_vars

\* The allocator can fail: every call of HASHSET_CALLOC returns an array or
\* NULL.
ResizeAllocStep ==
  \E c \in PreSizes, okd, oks \in BOOLEAN : c > size /\ ResizeAlloc(c, okd, oks)

InsertGrowFailStep ==
  \E k \in Keys, n \in KeyLens, okd, oks \in BOOLEAN :
    InsertGrowFail(k, n, okd, oks)

FaultCallStep ==
  \E op \in {"insert", "contains", "remove"}, k \in Keys, n \in KeyLens :
    FaultCall(op, k, n)

DestroyStep == Destroy

NextAlloc ==
  \/ InsertStep
  \/ ContainsStep
  \/ RemoveStep
  \/ ResizeAllocStep
  \/ InsertGrowFailStep
  \/ FaultCallStep
  \/ DestroyStep

SpecAlloc == InitAlloc /\ [][NextAlloc]_vars

\* Threads that call contains while the owner of the set calls insert,
\* remove and resize, without a lock.  At most one call of the owner runs
\* during one call of contains.
InProgress == {r \in Readers : readers[r].pc # "idle"}

OwnerTurn == \A r \in InProgress : ~readers[r].mutated

\* the keys of these threads: 1337 and 18, which collide
CollidingKeys == {KeyUniverse[2], KeyUniverse[4]}

StartContainsStep ==
  \E r \in Readers, k \in CollidingKeys, n \in KeyLens : StartContains(r, k, n)

OwnerInsertStep ==
  OwnerTurn /\ \E k \in CollidingKeys, n \in KeyLens : Insert(k, n)

OwnerRemoveStep ==
  OwnerTurn /\ \E k \in CollidingKeys, n \in KeyLens : Remove(k, n)

OwnerResizeStep == OwnerTurn /\ ResizeStep

ProbeStepStep == \E r \in Readers : ProbeStep(r)

FinishContainsStep == \E r \in Readers : FinishContains(r)

NextConc ==
  \/ StartContainsStep
  \/ ProbeStepStep
  \/ FinishContainsStep
  \/ OwnerInsertStep
  \/ OwnerRemoveStep
  \/ OwnerResizeStep

SpecConc == Init /\ [][NextConc]_vars

\* The probe on every kind of table: the owner inserts and removes the
\* colliding keys and resizes to any power of two, so that tables with
\* Tombstones and tables without a free slot arise, and calls find_slot.
FindSlotStep == \E k \in Keys, n \in KeyLens : FindSlot(k, n)

NextProbe ==
  \/ OwnerInsertStep
  \/ OwnerRemoveStep
  \/ ResizeAnyStep
  \/ FindSlotStep

SpecProbe == Init /\ [][NextProbe]_vars

\* Growth under the default configuration: the callers insert as many keys
\* as the initial table has slots, each time the first key of KeyUniverse
\* that is not in the set, and between these inserts insert, remove and ask
\* for the keys of Keys.
GrowKeys == {KeyUniverse[i] : i \in 1..HASHSET_INITIAL_CAPACITY}

NextKey ==
  KeyUniverse[CHOOSE i \in 1..HASHSET_INITIAL_CAPACITY :
                /\ KeyUniverse[i] \notin live
                /\ \A j \in 1..(i - 1) : KeyUniverse[j] \in live]

GrowInsertStep ==
  /\ GrowKeys \ live # {}
  /\ \E n \in KeyLens : Insert(NextKey, n)

NextGrow == GrowInsertStep \/ InsertStep \/ RemoveStep \/ ContainsStep

SpecGrow == Init /\ [][NextGrow]_vars

\* One thread: a call starts when the call before it has returned; contains
\* runs statement by statement.  A call that has started keeps running.
Sequential == InProgress = {}

SeqContainsStep ==
  Sequential /\ \E k \in Keys, n \in KeyLens : StartContains("r1", k, n)

SeqInsertStep == Sequential /\ OwnerInsertStep

SeqRemoveStep == Sequential /\ OwnerRemoveStep

SeqResizeStep == Sequential /\ ResizeAnyStep

SeqFindSlotStep == Sequential /\ FindSlotStep

NextTerm ==
  \/ SeqContainsStep
  \/ ProbeStepStep
  \/ FinishContainsStep
  \/ SeqInsertStep
  \/ SeqRemoveStep
  \/ SeqResizeStep
  \/ SeqFindSlotStep

SpecTerm ==
  /\ Init
  /\ [][NextTerm]_vars
  /\ WF_vars(ProbeStepStep)
  /\ WF_vars(FinishContainsStep)

\* The whole life of a set whose allocations succeed.
NextLife == InsertStep \/ ContainsStep \/ RemoveStep \/ ResizeStep \/ DestroyStep

SpecLife == Init /\ [][NextLife]_vars

(***************************************************************************)
(* Properties.                                                             *)
(***************************************************************************)
SetAfter == [data |-> data', state |-> state', size |-> size',
             capacity |-> capacity', oob |-> oob']

RECURSIVE IsPow2(_)
IsPow2(n) == n = 1 \/ (n > 1 /\ n % 2 = 0 /\ IsPow2(n \div 2))

OccupiedSlots(k) ==
  {i \in DOMAIN state : state[i] = Occupied /\ data[i].val = k}

\* C1: contains(k) right after insert(k) is true, and right after remove(k)
\* it is false, whatever the insert or the remove returned.
C1_RoundTrip ==
  /\ last.op = "insert"
       => ContainsResults(Set, last.key, last.len) = {TRUE}
  /\ last.op = "remove"
       => ContainsResults(Set, last.key, last.len) = {FALSE}

\* a remove that removed an entry and left a Tombstone, contains now false
C1_Witness ==
  /\ last.op = "remove" /\ last.ret
  /\ \E i \in DOMAIN state :
       state[i] = Tombstone /\ data[i].val = last.key
  /\ ContainsResults(Set, last.key, last.len) = {FALSE}

\* C2: remove(k) leaves the result of contains(j) as it was, for every key
\* j other than k.
C2_RemoveFrame ==
  [][last'.op = "remove"
       => \A j \in Keys \ {last'.key} : \A n \in KeyLens :
            ContainsResults(SetAfter, j, n) = ContainsResults(Set, j, n)]_vars

\* C3: no two Occupied slots hold equal keys, and every key of the set is
\* held by exactly one Occupied slot.
C3_Unique ==
  /\ \A i, j \in DOMAIN state :
       (i # j /\ state[i] = Occupied /\ state[j] = Occupied)
         => ~eq_fn(data[i].val, data[i].size, data[j].val, data[j].size)
  /\ \A k \in live : Cardinality(OccupiedSlots(k)) = 1

\* C4: size is the number of keys for which contains returns true.
C4_SizeAccounting ==
  size = Cardinality({k \in Keys : ContainsResults(Set, k, 0) = {TRUE}})

\* C5: insert(k) of a key that was inserted successfully and not removed
\* since returns false and leaves size unchanged.
C5_NoDuplicates ==
  [][(last'.op = "insert" /\ last'.key \in live)
       => (~last'.ret /\ size' = size)]_vars

\* C6: a resize that does not shrink the table (inside insert, or direct)
\* leaves contains true for the keys of the set and false for the removed
\* keys.
C6_ResizeKeeps ==
  [][((last'.op = "resize" \/ (last'.op = "insert" /\ last'.grew))
        /\ capacity' >= capacity)
       => /\ \A k \in live : ContainsResults(SetAfter, k, 0) = {TRUE}
          /\ \A k \in Keys \ live :
               (last'.op = "insert" /\ k = last'.key)
                 \/ ContainsResults(SetAfter, k, 0) = {FALSE}]_vars

\* C7: after insert(A), remove(A), the insert(B) of another key B that
\* hashes to the slot of A returns true and turns that Tombstone slot into
\* an Occupied slot holding B; then contains(B) is true and contains(A)
\* false.
C7_TombstoneReuse ==
  [][(pending.slot >= 0 /\ last'.op = "insert" /\ last'.key # pending.key
        /\ MaskedHash[capacity - 1][last'.key] = pending.slot)
       => /\ last'.ret
          /\ capacity' = capacity
          /\ state'[pending.slot] = Occupied
          /\ data'[pending.slot].val = last'.key
          /\ ContainsResults(SetAfter, last'.key, 0) = {TRUE}
          /\ ContainsResults(SetAfter, pending.key, 0) = {FALSE}]_vars

\* C8: insert doubles the capacity exactly when size / capacity > 0.7 at
\* its entry and leaves it alone otherwise; once ceil(0.7 * 16) + 1 distinct
\* keys are in a fresh set, the capacity has doubled and is a power of two.
C8_LoadFactorTrigger ==
  [][last'.op = "insert"
       => /\ capacity' = IF size * 10 > MaxLoadTenths * capacity
                          THEN 2 * capacity ELSE capacity
          /\ Cardinality(live') = FillCount
               => (capacity' > HASHSET_INITIAL_CAPACITY /\ IsPow2(capacity'))
    ]_vars

\* the insert of the last of the FillCount keys, which doubled the capacity
C8_Witness ==
  /\ last.op = "insert" /\ last.ret /\ last.grew
  /\ Cardinality(live) = FillCount
  /\ size = FillCount
  /\ capacity = 2 * HASHSET_INITIAL_CAPACITY

\* C9: capacity is a power of two and size <= capacity.
C9_Structure == IsPow2(capacity) /\ size <= capacity

\* an insert that grew the table by the load factor
C9_Witness ==
  /\ last.op = "insert" /\ last.grew
  /\ size > 0
  /\ capacity < HASHSET_INITIAL_CAPACITY

\* C10: a call that finds every slot Occupied by other keys returns its
\* failure result and indexes no slot outside 0..capacity-1.
C10_FullDefence ==
  /\ oob = "none"
  /\ last.full => ~last.ret

\* C11: init and resize return 0 exactly when both arrays were allocated; if
\* an allocation failed they return a negative result.
C11_AllocSignalled ==
  (last.op \in {"init", "resize"} /\ mem.fault = "none")
    => (last.ret <=> (mem.data = "live" /\ mem.state = "live"))

\* C12: after an init or resize, both arrays exist, zeroed apart from the
\* re-inserted entries, with length capacity, or destroy is safe; resize
\* never goes through a NULL new array and never leaves a capacity for
\* arrays that do not exist.
C12_NoPartialState ==
  /\ last.op \in {"init", "resize"}
       => \/ /\ mem.data = "live" /\ mem.state = "live"
             /\ DOMAIN data = 0..(capacity - 1)
             /\ DOMAIN state = 0..(capacity - 1)
             /\ \A i \in DOMAIN state :
                  state[i] = Empty => data[i] = ZeroPair
          \/ set_destroy(Set, mem).mem.fault = "none"
  /\ (last.op = "resize" \/ (last.op = "insert" /\ last.grew))
       => /\ mem.fault # "null_deref"
          /\ capacity > 0 => (mem.data = "live" /\ mem.state = "live")

\* C13: in a run init, calls, destroy, every array that init or resize
\* allocated is released exactly once: none is lost, none is freed twice,
\* the calls use allocated arrays only, and after destroy size and capacity
\* are 0, both pointers are NULL and no array is left.
C13_Lifecycle ==
  /\ mem.leaked = 0
  /\ mem.fault = "none"
  /\ last.op # "destroy"
       => /\ mem.data = "live" /\ mem.state = "live"
          /\ DOMAIN data = 0..(capacity - 1)
          /\ DOMAIN state = 0..(capacity - 1)
  /\ last.op = "destroy"
       => /\ size = 0 /\ capacity = 0
          /\ mem.data = "null" /\ mem.state = "null"
          /\ DOMAIN data = {} /\ DOMAIN state = {}

\* destroy of a set that holds entries and from which entries were removed
C13_Witness ==
  /\ last.op = "destroy"
  /\ live # {}
  /\ removals > 0
  /\ size = 0 /\ capacity = 0
  /\ mem = [data |-> "null", state |-> "null", leaked |-> 0,
            fault |-> "none"]

\* C14: a step of contains changes no slot state, no entry, and neither size
\* nor capacity; a call of contains during which no insert, remove or
\* resize ran returns what it returns when run alone, whatever other calls
\* of contains were in progress.
C14_PureRead ==
  [][/\ (\/ last'.op = "contains" /\ last' # last
         \/ \E r \in Readers : readers'[r].pc # readers[r].pc
         \/ \E r \in Readers : readers'[r].visited # readers[r].visited)
        => UNCHANGED <<data, state, size, capacity>>
     /\ \A r \in Readers :
          (readers[r].pc = "test" /\ readers'[r].pc = "idle"
             /\ ~readers[r].mutated)
            => last'.ret = readers[r].ret0]_vars

\* a call of contains returned, while another call of contains was in
\* progress, a result that is wrong both for the state it started in and
\* for the state it returned in: a resize ran during the call
C14_Witness ==
  /\ last.op = "contains"
  /\ \E r \in Readers : readers[r].pc = "idle" /\ readers[r].torn
  /\ \E r \in Readers : readers[r].pc = "probe" /\ ~readers[r].mutated

\* C15: a remove(k) for which find_slot returns a slot that is not Occupied
\* returns false and leaves the set as it was; otherwise it returns true,
\* turns that one slot, which holds k, from Occupied into Tombstone and
\* takes 1 from size; capacity, the other slot states (the Tombstones
\* among them) and every entry stay as they were.
C15_RemoveEffect ==
  [][last'.op = "remove"
       => LET idx == set_find_slot(Set, last'.key, last'.len)
          IN  /\ idx \in DOMAIN state
              /\ last'.ret <=> state[idx] = Occupied
              /\ ~last'.ret => UNCHANGED <<data, state, size, capacity>>
              /\ last'.ret
                   => /\ eq_fn(data[idx].val, data[idx].size,
                               last'.key, last'.len)
                      /\ state'[idx] = Tombstone
                      /\ \A i \in DOMAIN state \ {idx} : state'[i] = state[i]
                      /\ DOMAIN state' = DOMAIN state
                      /\ size' = size - 1
                      /\ UNCHANGED <<data, capacity>>]_vars

\* a second entry was removed: both Tombstones are in the table, with the
\* removed values still in their entries
C15_Witness ==
  /\ last.op = "remove" /\ last.ret
  /\ Cardinality({i \in DOMAIN state : state[i] = Tombstone}) = 2
  /\ \E i \in DOMAIN state :
       state[i] = Tombstone /\ data[i].val = last.key

\* C16: size is the number of slots whose state is Occupied.
C16_SizeIsOccupied ==
  size = Cardinality({i \in DOMAIN state : state[i] = Occupied})

\* the j-th slot of the probe order of key: hash & (capacity - 1), + 1, ...
ProbeOrder(s, key, key_len, j) ==
  (MaskedHash[s.capacity - 1][key] + j) % s.capacity

\* slot i ends the probe for key: it is not Occupied, or holds an equal key
Stops(s, i, key, key_len) ==
  \/ s.state[i] # Occupied
  \/ eq_fn(s.data[i].val, s.data[i].size, key, key_len)

\* the first slot of the probe order that ends the probe, capacity if none
FirstStop(s, key, key_len) ==
  LET J == {j \in 0..(s.capacity - 1) :
              Stops(s, ProbeOrder(s, key, key_len, j), key, key_len)}
  IN  IF J = {} THEN s.capacity
      ELSE ProbeOrder(s, key, key_len,
                      CHOOSE j \in J : \A k \in J : j <= k)

C18_NeverFull ==
  /\ \E i \in DOMAIN state : state[i] # Occupied
  /\ \A k \in GrowKeys : ~Full(Set, k, 0)
  /\ ~last.full
  /\ oob = "none"

\* the insert that found 12 of 16 slots counted and doubled the table,
\* after removes had left Tombstones
C18_Witness ==
  /\ last.op = "insert" /\ last.ret /\ last.grew
  /\ removals > 0
  /\ capacity = 2 * HASHSET_INITIAL_CAPACITY
  /\ size > HASHSET_INITIAL_CAPACITY - 4

\* C19: right after a resize, direct or inside insert, every slot is Empty
\* or Occupied, none is a Tombstone, and every Occupied slot holds an entry
\* (value and length tag) that an Occupied slot of the old array held; after
\* an insert that resized, one slot may hold the inserted key instead.
C19_ResizeCompacts ==
  [][(last'.op = "resize" \/ (last'.op = "insert" /\ last'.grew))
       => /\ \A i \in DOMAIN state' : state'[i] \in {Empty, Occupied}
          /\ \A i \in DOMAIN state' :
               state'[i] = Occupied
                 => \/ \E j \in DOMAIN state :
                         state[j] = Occupied /\ data[j] = data'[i]
                    \/ /\ last'.op = "insert"
                       /\ data'[i] = [val |-> last'.key,
                                      size |-> last'.len]]_vars

\* a resize of a table with a Tombstone: the new table has entries and no
\* Tombstone
C19_Witness ==
  /\ last.op = "resize"
  /\ removals > 0
  /\ size > 0
  /\ \A i \in DOMAIN state : state[i] # Tombstone

\* C20: every call ends.  The loop of find_slot visits at least one and at
\* most capacity slots, for every key and every table, before and after
\* every call; the loop of resize makes as many iterations as the old array
\* has slots; a call of contains that runs statement by statement has
\* visited at most capacity slots at any time and returns.
C20_BoundedLoops ==
  /\ [][/\ \A k \in Keys : \A n \in KeyLens :
              /\ ProbeVisits(Set, k, n) \in 1..capacity
              /\ ProbeVisits(SetAfter, k, n) \in 1..capacity'
         /\ last'.op = "resize"
              => ResizeIters(Set, capacity') = capacity]_vars
  /\ [](\A r \in InProgress :
          /\ readers[r].visited <= capacity
          /\ readers[r].pc = "test"
               => readers[r].visited
                    = ProbeVisits(Set, readers[r].key, readers[r].key_len))
  /\ \A r \in Readers :
       (readers[r].pc # "idle") ~> (readers[r].pc = "idle")

\* find_slot visited every slot of a table of two Occupied slots, both
\* holding other keys that collide with the key, and returned
C20_Witness ==
  /\ last.op = "find_slot" /\ last.full
  /\ capacity = 2
  /\ ProbeVisits(Set, last.key, last.len) = capacity
  /\ \A i \in DOMAIN state : state[i] = Occupied

====
